---- MODULE Spec2Model ----
(***************************************************************************)
(* Model of dice_ml/data_interfaces/private_data_interface.py:             *)
(* class PrivateData, a data interface built from meta data only.          *)
(*                                                                         *)
(* Strings are sequences of one-character strings, so that startswith,     *)
(* the `in' substring test, str.replace and sorted() are computed.         *)
(* A DataFrame is [cols |-> sequence of column names,                      *)
(*                 rows |-> sequence of rows, each a sequence of cells].   *)
(* A cell is a rational number n/d (exact arithmetic), a string or NaN.    *)
(***************************************************************************)
EXTENDS Integers, Sequences, FiniteSets, TLC

\* ---------------------------------------------------------------- bounds
MaxFeatures == 2     \* number of entries of params['features']
MaxLevels == 2       \* number of levels of a categorical feature
MaxVal == 2          \* largest bound of a permitted range
MaxPrec == 2         \* largest declared decimal precision
MaxRows == 2         \* number of rows of a table handed to a transform

\* ------------------------------------------------------- Python strings
Range(s) == {s[i] : i \in DOMAIN s}

\* code point order of the characters used in names and levels
Ord(c) ==
    CASE c = "_" -> 95
      [] c = "a" -> 97
      [] c = "b" -> 98
      [] c = "x" -> 120
      [] c = "y" -> 121
      [] c = "z" -> 122

\* s < t for Python str
RECURSIVE StrLess(_, _)
StrLess(s, t) ==
    IF t = <<>> THEN FALSE
    ELSE IF s = <<>> THEN TRUE
    ELSE IF Ord(Head(s)) < Ord(Head(t)) THEN TRUE
    ELSE IF Ord(Head(s)) > Ord(Head(t)) THEN FALSE
    ELSE StrLess(Tail(s), Tail(t))

\* insertion of x into the sorted list l, after the elements equal to it
RECURSIVE SortedInsert(_, _)
SortedInsert(l, x) ==
    IF l = <<>> THEN <<x>>
    ELSE IF StrLess(x, Head(l)) THEN <<x>> \o l
    ELSE <<Head(l)>> \o SortedInsert(Tail(l), x)

\* sorted(l) for a list of str
RECURSIVE Sorted(_)
Sorted(l) ==
    IF l = <<>> THEN <<>>
    ELSE SortedInsert(Sorted(SubSeq(l, 1, Len(l) - 1)), l[Len(l)])

\* s.startswith(p)
StartsWith(s, p) == Len(p) <= Len(s) /\ SubSeq(s, 1, Len(p)) = p

\* p in s  (substring test)
Contains(s, p) ==
    \E i \in 0..(Len(s) - Len(p)) : SubSeq(s, i + 1, i + Len(p)) = p

\* s.replace(p, "")
RECURSIVE Replace(_, _)
Replace(s, p) ==
    IF p = <<>> \/ Len(s) < Len(p) THEN s
    ELSE IF SubSeq(s, 1, Len(p)) = p THEN Replace(SubSeq(s, Len(p) + 1, Len(s)), p)
    ELSE <<Head(s)>> \o Replace(Tail(s), p)

\* l.index(x): the first position of x (0-based)
ListIndex(l, x) ==
    (CHOOSE i \in DOMAIN l : l[i] = x /\ \A j \in 1..(i - 1) : l[j] # x) - 1

\* range(n) as a list
PyRange(n) == [i \in 1..n |-> i - 1]

\* an attribute that was never assigned, and one that was
Unset == [def |-> FALSE, v |-> <<>>]
Attr(x) == [def |-> TRUE, v |-> x]

\* --------------------------------------------------------- constructor
\* an entry of features_dict: ty is type(features_dict[feature][0])
IsContinuous(f) == f.ty = "int"

SelectNames(features_dict, cont) ==
    LET sel == SelectSeq(features_dict, LAMBDA f : IsContinuous(f) = cont)
    IN  [i \in DOMAIN sel |-> sel[i].name]

Keys(features_dict) == [i \in DOMAIN features_dict |-> features_dict[i].name]

ValuesOf(features_dict, cont) ==
    LET sel == SelectSeq(features_dict, LAMBDA f : IsContinuous(f) = cont)
    IN  [n \in {sel[i].name : i \in DOMAIN sel} |->
            (CHOOSE f \in Range(sel) : f.name = n).val]

FeatureIndexes(features_dict, names) ==
    [i \in DOMAIN names |-> ListIndex(Keys(features_dict), names[i])]

\* feature_name+'_'+category for the sorted categories of one feature
LevelColumns(feature_name, levels) ==
    LET s == Sorted(levels)
    IN  [i \in DOMAIN s |-> feature_name \o <<"_">> \o s[i]]

RECURSIVE AppendLevelColumns(_, _, _)
AppendLevelColumns(acc, cat_names, levels) ==
    IF cat_names = <<>> THEN acc
    ELSE AppendLevelColumns(acc \o LevelColumns(Head(cat_names), levels[Head(cat_names)]),
                            Tail(cat_names), levels)

\* self.encoded_feature_names after __init__
EncodedFeatureNames(cont_names, cat_names, levels) ==
    IF Len(cat_names) > 0
    THEN Attr(AppendLevelColumns(cont_names, cat_names, levels))
    ELSE Unset

\* self.type_and_precision after __init__ (tp is params['type_and_precision'] or {})
TypeAndPrecision(tp, cont_names) ==
    IF Cardinality(DOMAIN tp) = 0
    THEN [n \in Range(cont_names) |-> <<"int">>]
    ELSE tp

DefaultMad(features_dict) == [i \in DOMAIN features_dict |-> 1]


\* ------------------------------------------------------------ cells
RECURSIVE GCD(_, _)
GCD(a, b) == IF b = 0 THEN a ELSE GCD(b, a % b)

Abs(n) == IF n < 0 THEN -n ELSE n

\* the number n/d (d # 0) in lowest terms
Num(n, d) ==
    LET g == GCD(Abs(n), Abs(d))
        sgn == IF d < 0 THEN -1 ELSE 1
    IN  [k |-> "num", n |-> (sgn * n) \div g, d |-> Abs(d) \div g, s |-> <<>>]
Str(s) == [k |-> "str", n |-> 0, d |-> 1, s |-> s]
NaN == [k |-> "nan", n |-> 0, d |-> 1, s |-> <<>>]

\* arithmetic of a cell with an int; NaN propagates
CellSub(c, m) == IF c.k = "nan" THEN NaN ELSE Num(c.n - m * c.d, c.d)
CellAdd(c, m) == IF c.k = "nan" THEN NaN ELSE Num(c.n + m * c.d, c.d)
CellMul(c, m) == IF c.k = "nan" THEN NaN ELSE Num(c.n * m, c.d)
CellDiv(c, m) == IF c.k = "nan" THEN NaN ELSE Num(c.n, c.d * m)

\* a < b for numeric cells
CellLess(a, b) == a.n * b.d < b.n * a.d

\* ----------------------------------------------------------- frames
ColIndex(cols, name) == ListIndex(cols, name) + 1

\* df[name]
GetColumn(df, name) ==
    [r \in DOMAIN df.rows |-> df.rows[r][ColIndex(df.cols, name)]]

\* df[name] = vals: replaces the column, or appends a new one
SetColumn(df, name, vals) ==
    IF name \in Range(df.cols)
    THEN [cols |-> df.cols,
          rows |-> [r \in DOMAIN df.rows |->
                       [df.rows[r] EXCEPT ![ColIndex(df.cols, name)] = vals[r]]]]
    ELSE [cols |-> Append(df.cols, name),
          rows |-> [r \in DOMAIN df.rows |-> Append(df.rows[r], vals[r])]]

\* the row of a frame with columns from_cols, laid out on columns cols
Reindex(row, from_cols, cols) ==
    [i \in DOMAIN cols |->
        IF cols[i] \in Range(from_cols) THEN row[ColIndex(from_cols, cols[i])]
        ELSE NaN]

\* df[cols]
SelectColumns(df, cols) ==
    [cols |-> cols,
     rows |-> [r \in DOMAIN df.rows |-> Reindex(df.rows[r], df.cols, cols)]]

\* df.drop(cols, axis=1) for cols that df has
DropColumns(df, cols) ==
    SelectColumns(df, SelectSeq(df.cols, LAMBDA c : c \notin Range(cols)))

NaNRow(n) == [i \in 1..n |-> NaN]

\* pd.DataFrame({name: values})
OneColumnFrame(name, values) ==
    [cols |-> <<name>>, rows |-> [r \in DOMAIN values |-> <<values[r]>>]]

\* pd.concat([df, temp_df], axis=1, sort=False) of frames with default indexes
ConcatColumns(df, temp_df) ==
    LET n == IF Len(df.rows) > Len(temp_df.rows)
             THEN Len(df.rows) ELSE Len(temp_df.rows)
    IN  [cols |-> df.cols \o temp_df.cols,
         rows |-> [r \in 1..n |->
                     (IF r <= Len(df.rows) THEN df.rows[r]
                      ELSE NaNRow(Len(df.cols)))
                     \o (IF r <= Len(temp_df.rows) THEN temp_df.rows[r]
                         ELSE NaNRow(Len(temp_df.cols)))]]

\* temp.append(test, ignore_index=True, sort=False)
AppendRows(temp, test) ==
    LET cols == temp.cols \o SelectSeq(test.cols, LAMBDA c : c \notin Range(temp.cols))
    IN  [cols |-> cols,
         rows |-> [r \in DOMAIN temp.rows |-> Reindex(temp.rows[r], temp.cols, cols)]
                  \o [r \in DOMAIN test.rows |-> Reindex(test.rows[r], test.cols, cols)]]

\* df.tail(n).reset_index(drop=True)
TailRows(df, n) ==
    [cols |-> df.cols,
     rows |-> SubSeq(df.rows, Len(df.rows) - n + 1, Len(df.rows))]

\* the sorted list of a set of strings
RECURSIVE SortedSet(_)
SortedSet(S) ==
    IF S = {} THEN <<>>
    ELSE LET m == CHOOSE x \in S : \A y \in S \ {x} : StrLess(x, y)
         IN  <<m>> \o SortedSet(S \ {m})

\* np.argmax of one row: the first position of the maximum (NaN is maximal)
ArgMax(cells) ==
    CHOOSE i \in DOMAIN cells :
        /\ \A j \in DOMAIN cells :
               \/ cells[i].k = "nan"
               \/ (cells[j].k # "nan" /\ ~CellLess(cells[i], cells[j]))
        /\ \A j \in 1..(i - 1) :
               /\ cells[j].k # "nan"
               /\ cells[i].k = "nan" \/ CellLess(cells[j], cells[i])

\* ------------------------------------------------------------- inputs
FeatureNamePool == {<<"a">>, <<"a", "_", "b">>, <<"b">>}
LevelPool == << <<"x">>, <<"y">>, <<"z">> >>
OutcomeName == <<"y">>
OtherName == <<"z">>

\* declared level lists: the first k levels of the pool, for k = 1 and the
\* largest k, in an order that is not the sorted one (for k > 1)
LevelLists ==
    {[i \in 1..k |-> LevelPool[k + 1 - i]] :
        k \in {1, IF MaxLevels < Len(LevelPool) THEN MaxLevels ELSE Len(LevelPool)}}

\* declared ranges [min, max] of ints with min < max: the widest and the
\* narrowest one below MaxVal
Ranges == {<<lo, MaxVal>> : lo \in {0, MaxVal - 1}}

DeclaredValues ==
    {[ty |-> "int", val |-> r] : r \in Ranges} \cup
    {[ty |-> "str", val |-> l] : l \in LevelLists}

FeatureCounts ==
    1..(IF MaxFeatures < Cardinality(FeatureNamePool)
        THEN MaxFeatures ELSE Cardinality(FeatureNamePool))

\* params['features']: an ordered dict, as the sequence of its items
FeatureDicts ==
    UNION {{[i \in 1..n |-> [name |-> ns[i], ty |-> vs[i].ty, val |-> vs[i].val]] :
               ns \in {q \in [1..n -> FeatureNamePool] :
                          \A i, j \in 1..n : i # j => q[i] # q[j]},
               vs \in [1..n -> DeclaredValues]} :
           n \in FeatureCounts}

TypePrecValues == {<<"int">>} \cup {<<"float", d>> : d \in 1..MaxPrec}

\* params['type_and_precision'] (absent is the empty dict): continuous
\* feature names as keys
TypePrecDicts(cont_names) ==
    UNION {[S -> TypePrecValues] : S \in SUBSET Range(cont_names)}

\* ------------------------------------------------------------ state
\* The attributes of the PrivateData object, and the caller: pc is "ready"
\* before a call and "done" when the caller holds a result; call is the
\* operation called with its argument and ret what it returned or raised;
\* prev is the call whose result was passed on as the argument of call;
\* first_data_params records what the first get_data_params returned.
VARIABLES outcome_name, feature_names, continuous_feature_names,
          categorical_feature_names, continuous_feature_indexes,
          categorical_feature_indexes, permitted_range, categorical_levels,
          encoded_feature_names, type_and_precision, mad,
          encoded_continuous_feature_indexes,
          encoded_categorical_feature_indexes,
          pc, call, ret, prev, first_data_params

constructed == <<outcome_name, feature_names, continuous_feature_names,
                 categorical_feature_names, continuous_feature_indexes,
                 categorical_feature_indexes, permitted_range,
                 categorical_levels, encoded_feature_names,
                 type_and_precision, mad>>
caches == <<encoded_continuous_feature_indexes,
            encoded_categorical_feature_indexes>>
self == <<constructed, caches>>
vars == <<self, pc, call, ret, prev, first_data_params>>

NoCall == [op |-> "none", arg |-> <<>>]
Ok(v) == [st |-> "ok", v |-> v]
Raise(e) == [st |-> e, v |-> <<>>]

\* PrivateData(params) for params with a dict of features and a str outcome
Construct(features_dict, tp) ==
    /\ outcome_name = OutcomeName
    /\ type_and_precision =
           TypeAndPrecision(tp, SelectNames(features_dict, TRUE))
    /\ mad = DefaultMad(features_dict)
    /\ continuous_feature_names = SelectNames(features_dict, TRUE)
    /\ permitted_range = ValuesOf(features_dict, TRUE)
    /\ categorical_feature_names = SelectNames(features_dict, FALSE)
    /\ categorical_levels = ValuesOf(features_dict, FALSE)
    /\ feature_names = Keys(features_dict)
    /\ continuous_feature_indexes =
           FeatureIndexes(features_dict, SelectNames(features_dict, TRUE))
    /\ categorical_feature_indexes =
           FeatureIndexes(features_dict, SelectNames(features_dict, FALSE))
    /\ encoded_feature_names =
           EncodedFeatureNames(SelectNames(features_dict, TRUE),
                               SelectNames(features_dict, FALSE),
                               ValuesOf(features_dict, FALSE))
    /\ encoded_continuous_feature_indexes = Unset
    /\ encoded_categorical_feature_indexes = Unset

Caller ==
    /\ pc = "ready"
    /\ call = NoCall
    /\ ret = Ok(<<>>)
    /\ prev = NoCall
    /\ first_data_params = Unset

\* construction without params['type_and_precision']
Init ==
    /\ \E features_dict \in FeatureDicts : Construct(features_dict, <<>>)
    /\ Caller

\* construction with any params['type_and_precision']
InitPrecisions ==
    /\ \E features_dict \in FeatureDicts :
         \E tp \in TypePrecDicts(SelectNames(features_dict, TRUE)) :
            Construct(features_dict, tp)
    /\ Caller

\* the caller issues a call and receives its result; a call made while a
\* result is held takes that result as its argument
Returns(op, arg, result) ==
    /\ pc' = "done"
    /\ call' = [op |-> op, arg |-> arg]
    /\ ret' = result
    /\ prev' = IF pc = "ready" THEN NoCall ELSE call

\* the caller drops the result it holds
Discard ==
    /\ pc = "done"
    /\ pc' = "ready"
    /\ call' = NoCall
    /\ ret' = Ok(<<>>)
    /\ prev' = NoCall
    /\ UNCHANGED <<self, first_data_params>>

\* ------------------------------------------------- index operations
Zeros(n) == [i \in 1..n |-> 0]
Ones(n) == [i \in 1..n |-> 1]

get_minx_maxx_result(normalized) ==
    IF ~encoded_feature_names.def THEN Raise("AttributeError")
    ELSE IF normalized
         THEN Ok(<<Zeros(Len(encoded_feature_names.v)),
                   Ones(Len(encoded_feature_names.v))>>)
         ELSE Raise("NameError")

get_minx_maxx ==
    \E normalized \in BOOLEAN :
        /\ pc = "ready"
        /\ Returns("get_minx_maxx", normalized, get_minx_maxx_result(normalized))
        /\ UNCHANGED <<self, first_data_params>>

get_mads_from_training_data ==
    /\ pc = "ready"
    /\ Returns("get_mads_from_training_data", <<>>, Ok(mad))
    /\ UNCHANGED <<self, first_data_params>>

\* [encoded_feature_names.index(col) for col in encoded_feature_names
\*  if col.startswith(col_parent)]
StartsWithIndexes(names, col_parent) ==
    LET sel == SelectSeq(names, LAMBDA col : StartsWith(col, col_parent))
    IN  [i \in DOMAIN sel |-> ListIndex(names, sel[i])]

\* cols kept across calls: each call appends its groups to the cached ones
get_encoded_categorical_feature_indexes_kept ==
    (IF encoded_categorical_feature_indexes.def
     THEN encoded_categorical_feature_indexes.v ELSE <<>>)
    \o [i \in DOMAIN categorical_feature_names |->
           StartsWithIndexes(encoded_feature_names.v, categorical_feature_names[i])]

\* cols.append(temp) for col_parent in categorical_feature_names
get_encoded_categorical_feature_indexes ==
    [i \in DOMAIN categorical_feature_names |->
        StartsWithIndexes(encoded_feature_names.v, categorical_feature_names[i])]

get_data_params_result ==
    <<get_minx_maxx_result(TRUE).v[1], get_minx_maxx_result(TRUE).v[2],
      PyRange(Len(continuous_feature_indexes)),
      get_encoded_categorical_feature_indexes>>

get_data_params ==
    /\ pc = "ready"
    /\ IF get_minx_maxx_result(TRUE).st # "ok"
       THEN /\ Returns("get_data_params", <<>>, get_minx_maxx_result(TRUE))
            /\ UNCHANGED <<caches, first_data_params>>
       ELSE /\ Returns("get_data_params", <<>>, Ok(get_data_params_result))
            /\ encoded_continuous_feature_indexes' = Attr(get_data_params_result[3])
            /\ encoded_categorical_feature_indexes' = Attr(get_data_params_result[4])
            /\ first_data_params' =
                   IF first_data_params.def THEN first_data_params
                   ELSE Attr(get_data_params_result)
    /\ UNCHANGED constructed

\* features_to_vary: the str "all" or a list of feature names
FeaturesToVaryArgs ==
    {[all |-> TRUE, list |-> <<>>]} \cup
    {[all |-> FALSE, list |-> l] :
        l \in {<<>>} \cup {<<n>> : n \in FeatureNamePool \cup {OtherName}}
              \cup {<<n, m>> : n, m \in FeatureNamePool}}

get_indexes_of_features_to_vary_result(features_to_vary) ==
    IF ~encoded_feature_names.def THEN Raise("AttributeError")
    ELSE IF features_to_vary.all
         THEN Ok(PyRange(Len(encoded_feature_names.v)))
         ELSE IF Len(encoded_feature_names.v) = 0 THEN Ok(<<>>)
              ELSE Raise("NameError")

get_indexes_of_features_to_vary ==
    \E features_to_vary \in FeaturesToVaryArgs :
        /\ pc = "ready"
        /\ Returns("get_indexes_of_features_to_vary", features_to_vary,
                   get_indexes_of_features_to_vary_result(features_to_vary))
        /\ UNCHANGED <<self, first_data_params>>

\* precisions[ix] = ... for ix, feature_name in enumerate(continuous_feature_names)
RECURSIVE SetPrecisions(_, _)
SetPrecisions(precisions, ix) ==
    IF ix >= Len(continuous_feature_names) THEN Ok(precisions)
    ELSE LET feature_name == continuous_feature_names[ix + 1]
         IN  IF feature_name \notin DOMAIN type_and_precision
             THEN Raise("KeyError")
             ELSE LET type_prec == type_and_precision[feature_name]
                  IN  SetPrecisions(
                          [precisions EXCEPT ![ix + 1] =
                              IF type_prec = <<"int">> THEN 0 ELSE type_prec[2]],
                          ix + 1)

get_decimal_precisions_result == SetPrecisions(Zeros(Len(feature_names)), 0)

get_decimal_precisions ==
    /\ pc = "ready"
    /\ Returns("get_decimal_precisions", <<>>, get_decimal_precisions_result)
    /\ UNCHANGED <<self, first_data_params>>

get_dev_data ==
    /\ pc = "ready"
    /\ Returns("get_dev_data", <<>>, Raise("ValueError"))
    /\ UNCHANGED <<self, first_data_params>>

\* ------------------------------------------------------- transforms
\* the division by max_value instead of the width of the range
NormalizeValueByMax(v, min_value, max_value) ==
    CellDiv(CellSub(v, min_value), max_value)

\* (v - min_value) / (max_value - min_value)
NormalizeValue(v, min_value, max_value) ==
    CellDiv(CellSub(v, min_value), max_value - min_value)

\* (v*(max_value - min_value)) + min_value
DeNormalizeValue(v, min_value, max_value) ==
    CellAdd(CellMul(v, max_value - min_value), min_value)

\* the loop of normalize_data over continuous_feature_names
RECURSIVE NormalizeLoop(_, _, _)
NormalizeLoop(result, df, names) ==
    IF names = <<>> THEN Ok(result)
    ELSE LET feature_name == Head(names)
             max_value == permitted_range[feature_name][2]
             min_value == permitted_range[feature_name][1]
         IN  IF feature_name \notin Range(df.cols) THEN Raise("KeyError")
             ELSE IF \E r \in DOMAIN df.rows : GetColumn(df, feature_name)[r].k = "str"
                  THEN Raise("TypeError")
                  ELSE NormalizeLoop(
                           SetColumn(result, feature_name,
                               [r \in DOMAIN df.rows |->
                                   NormalizeValue(GetColumn(df, feature_name)[r],
                                        min_value, max_value)]),
                           df, Tail(names))

normalize_data_result(df) == NormalizeLoop(df, df, continuous_feature_names)

\* the loop of de_normalize_data over continuous_feature_names
RECURSIVE DeNormalizeLoop(_, _, _)
DeNormalizeLoop(result, df, names) ==
    IF names = <<>> THEN Ok(result)
    ELSE LET feature_name == Head(names)
             max_value == permitted_range[feature_name][2]
             min_value == permitted_range[feature_name][1]
         IN  IF feature_name \notin Range(df.cols) THEN Raise("KeyError")
             ELSE IF \E r \in DOMAIN df.rows : GetColumn(df, feature_name)[r].k = "str"
                  THEN Raise("TypeError")
                  ELSE DeNormalizeLoop(
                           SetColumn(result, feature_name,
                               [r \in DOMAIN df.rows |->
                                   DeNormalizeValue(GetColumn(df, feature_name)[r],
                                        min_value, max_value)]),
                           df, Tail(names))

de_normalize_data_result(df) == DeNormalizeLoop(df, df, continuous_feature_names)

\* the dummy columns of one column of data: one per value present, sorted
DummyColumns(data, col) ==
    LET values == GetColumn(data, col)
        levels == SortedSet({values[r].s : r \in {q \in DOMAIN values : values[q].k = "str"}})
    IN  [cols |-> [i \in DOMAIN levels |-> col \o <<"_">> \o levels[i]],
         rows |-> [r \in DOMAIN values |->
                     [i \in DOMAIN levels |->
                         IF values[r].k = "str" /\ values[r].s = levels[i]
                         THEN Num(1, 1) ELSE Num(0, 1)]]]

RECURSIVE AddDummies(_, _, _)
AddDummies(acc, data, columns) ==
    IF columns = <<>> THEN acc
    ELSE AddDummies(ConcatColumns(acc, DummyColumns(data, Head(columns))),
                    data, Tail(columns))

\* pd.get_dummies(data, drop_first=False, columns=categorical_feature_names)
one_hot_encode_data_result(data) ==
    IF \E c \in Range(categorical_feature_names) : c \notin Range(data.cols)
    THEN Raise("KeyError")
    ELSE Ok(AddDummies(DropColumns(data, categorical_feature_names), data,
                       categorical_feature_names))

\* [c for c in data.columns if l+prefix_sep in c]
DummyColumnsOf(data, l) ==
    SelectSeq(data.cols, LAMBDA c : Contains(c, l \o <<"_">>))

\* c.replace(l+prefix_sep, "") for the columns cols
Labels(cols, l) == [i \in DOMAIN cols |-> Replace(cols[i], l \o <<"_">>)]

RECURSIVE FromDummiesLoop(_, _, _)
FromDummiesLoop(out, data, names) ==
    IF names = <<>> THEN Ok(out)
    ELSE LET l == Head(names)
             cols == DummyColumnsOf(data, l)
             labs == Labels(cols, l)
             assigned ==
                 SetColumn(out, l,
                     [r \in DOMAIN data.rows |->
                         Str(labs[ArgMax(SelectColumns(data, cols).rows[r])])])
         IN  IF cols = <<>> THEN Raise("ValueError")
             ELSE IF \E c \in Range(cols) : c \notin Range(assigned.cols)
                  THEN Raise("KeyError")
                  ELSE FromDummiesLoop(DropColumns(assigned, cols), data, Tail(names))

from_dummies(data) == FromDummiesLoop(data, data, categorical_feature_names)

\* data is [ndarray |-> BOOLEAN, df |-> frame]; the cols of an ndarray are <<>>
get_decoded_data_result(data) ==
    IF data.ndarray
    THEN IF ~encoded_feature_names.def THEN Raise("AttributeError")
         ELSE IF \E r \in DOMAIN data.df.rows :
                     Len(data.df.rows[r]) # Len(encoded_feature_names.v)
              THEN Raise("ValueError")
              ELSE from_dummies([cols |-> encoded_feature_names.v,
                                 rows |-> data.df.rows])
    ELSE from_dummies(data.df)

RECURSIVE ConcatLevelFrames(_, _)
ConcatLevelFrames(df, colnames) ==
    IF colnames = <<>> THEN df
    ELSE ConcatLevelFrames(
             ConcatColumns(df,
                 OneColumnFrame(Head(colnames),
                     [i \in DOMAIN categorical_levels[Head(colnames)] |->
                         Str(categorical_levels[Head(colnames)][i])])),
             Tail(colnames))

RECURSIVE ConcatEmptyFrames(_, _)
ConcatEmptyFrames(df, colnames) ==
    IF colnames = <<>> THEN df
    ELSE ConcatEmptyFrames(ConcatColumns(df, OneColumnFrame(Head(colnames), <<>>)),
                           Tail(colnames))

prepare_df_for_encoding_result ==
    IF Len(categorical_feature_names) = 0 THEN Raise("IndexError")
    ELSE Ok(ConcatEmptyFrames(
                ConcatLevelFrames([cols |-> <<>>, rows |-> <<>>],
                                  categorical_feature_names),
                continuous_feature_names))

\* the steps of get_test_inputs after the template was built
EncodeWithTemplate(template, test) ==
    LET encoded == one_hot_encode_data_result(AppendRows(template, test))
    IN  IF encoded.st # "ok" THEN encoded
        ELSE LET normalized == normalize_data_result(encoded.v)
             IN  IF normalized.st # "ok" THEN normalized
                 ELSE Ok(TailRows(normalized.v, Len(test.rows)))

get_test_inputs_result(params, encode) ==
    LET test == [cols |-> feature_names, rows |-> <<params>>]
    IN  IF ~encode THEN normalize_data_result(test)
        ELSE IF prepare_df_for_encoding_result.st # "ok"
             THEN prepare_df_for_encoding_result
             ELSE EncodeWithTemplate(prepare_df_for_encoding_result.v, test)

\* ---------------------------------------------------- table arguments
\* the values a raw table holds for the feature name: the ints of the
\* permitted range and its midpoint, or the declared levels
DomainSeq(name) ==
    IF name \in DOMAIN permitted_range
    THEN LET lo == permitted_range[name][1]
             hi == permitted_range[name][2]
         IN  [i \in 1..(hi - lo + 1) |-> Num(lo + i - 1, 1)]
             \o (IF (lo + hi) % 2 = 1 THEN <<Num(lo + hi, 2)>> ELSE <<>>)
    ELSE [i \in DOMAIN categorical_levels[name] |-> Str(categorical_levels[name][i])]

CellDomain(name) == Range(DomainSeq(name))

\* rows of raw feature values for the features names, in their order
RECURSIVE RowsOver(_)
RowsOver(names) ==
    IF names = <<>> THEN {<<>>}
    ELSE {<<c>> \o row : c \in CellDomain(Head(names)), row \in RowsOver(Tail(names))}

RawRows == RowsOver(feature_names)

\* the value after c in the domain of the feature name, cyclically
NextInDomain(name, c) ==
    LET dom == DomainSeq(name)
        i == CHOOSE j \in DOMAIN dom : dom[j] = c
    IN  dom[(i % Len(dom)) + 1]

\* the rows that follow row, each stepping every value to the next of its domain
RECURSIVE RowsFrom(_, _)
RowsFrom(row, k) ==
    IF k = 0 THEN <<>>
    ELSE <<row>> \o RowsFrom([i \in DOMAIN row |-> NextInDomain(feature_names[i], row[i])],
                             k - 1)

\* raw tables of 1..MaxRows rows on the columns feature_names
RawTables ==
    {[cols |-> feature_names, rows |-> RowsFrom(row, k)] :
        row \in RawRows, k \in 1..MaxRows}

\* the table the caller holds as the result of one of the calls ops
Held(ops) ==
    IF pc = "done" /\ prev = NoCall /\ ret.st = "ok" /\ call.op \in ops
    THEN {ret.v} ELSE {}

Fresh(S) == IF pc = "ready" THEN S ELSE {}

normalize_data ==
    \E df \in Fresh(RawTables) \cup Held({"one_hot_encode_data"}) :
        /\ Returns("normalize_data", df, normalize_data_result(df))
        /\ UNCHANGED <<self, first_data_params>>

de_normalize_data ==
    \E df \in Fresh(RawTables) \cup Held({"normalize_data"}) :
        /\ Returns("de_normalize_data", df, de_normalize_data_result(df))
        /\ UNCHANGED <<self, first_data_params>>

one_hot_encode_data ==
    \E data \in Fresh(RawTables) :
        /\ Returns("one_hot_encode_data", data, one_hot_encode_data_result(data))
        /\ UNCHANGED <<self, first_data_params>>

get_decoded_data ==
    \E df \in Held({"one_hot_encode_data"}), ndarray \in BOOLEAN :
        LET data == [ndarray |-> ndarray,
                     df |-> IF ndarray THEN [cols |-> <<>>, rows |-> df.rows] ELSE df]
        IN  /\ Returns("get_decoded_data", data, get_decoded_data_result(data))
            /\ UNCHANGED <<self, first_data_params>>

prepare_df_for_encoding ==
    /\ pc = "ready"
    /\ Returns("prepare_df_for_encoding", <<>>, prepare_df_for_encoding_result)
    /\ UNCHANGED <<self, first_data_params>>

get_test_inputs ==
    \E params \in RawRows, encode \in BOOLEAN :
        /\ pc = "ready"
        /\ Returns("get_test_inputs", [params |-> params, encode |-> encode],
                   get_test_inputs_result(params, encode))
        /\ UNCHANGED <<self, first_data_params>>

Next ==
    \/ get_minx_maxx
    \/ get_mads_from_training_data
    \/ get_data_params
    \/ get_indexes_of_features_to_vary
    \/ get_decimal_precisions
    \/ get_dev_data
    \/ normalize_data
    \/ de_normalize_data
    \/ one_hot_encode_data
    \/ get_decoded_data
    \/ prepare_df_for_encoding
    \/ get_test_inputs
    \/ Discard

Spec == Init /\ [][Next]_vars

NextPrecisions ==
    \/ get_decimal_precisions
    \/ Discard

SpecPrecisions == InitPrecisions /\ [][NextPrecisions]_vars

\* ------------------------------------------------------ the layout
\* the spec names the code's ValueError ConfigurationError
ConfigurationError == "ValueError"

\* number of encoded columns before those of the i-th categorical feature
RECURSIVE LevelOffset(_)
LevelOffset(i) ==
    IF i <= 1 THEN Len(continuous_feature_names)
    ELSE LevelOffset(i - 1)
         + Len(categorical_levels[categorical_feature_names[i - 1]])

EncodedWidth == LevelOffset(Len(categorical_feature_names) + 1)

\* the categorical feature (as its position) that owns encoded position p
OwnerOf(p) ==
    CHOOSE i \in DOMAIN categorical_feature_names :
        LevelOffset(i) < p /\ p <= LevelOffset(i + 1)

\* the j-th smallest level of the categorical feature c
NthLevel(c, j) ==
    CHOOSE l \in Range(categorical_levels[c]) :
        Cardinality({m \in Range(categorical_levels[c]) : StrLess(m, l)}) = j - 1

\* continuous names in declaration order, then <feature>_<level> for every
\* categorical feature in declaration order, levels sorted
LayoutNames ==
    [p \in 1..EncodedWidth |->
        IF p <= Len(continuous_feature_names) THEN continuous_feature_names[p]
        ELSE categorical_feature_names[OwnerOf(p)] \o <<"_">>
             \o NthLevel(categorical_feature_names[OwnerOf(p)],
                         p - LevelOffset(OwnerOf(p)))]

\* the value of feature name in a row laid out on feature_names
RawValue(row, name) == row[ColIndex(feature_names, name)]

\* C1: after construction encoded_feature_names exists for every schema
\* (also one without categorical features) and is the continuous names
\* followed by <feature>_<level> with sorted levels; its length is
\* |continuous| plus the number of levels of every categorical feature.
C1_EncodedFeatureNames ==
    /\ encoded_feature_names.def
    /\ encoded_feature_names.v = LayoutNames
    /\ Len(encoded_feature_names.v) = EncodedWidth

\* C2: get_minx_maxx returns for either flag two vectors of the encoded
\* width: all 0 / all 1 when normalized, else the permitted range at
\* continuous positions and 0 / 1 at one-hot positions.
C2_MinxMaxx ==
    (pc = "done" /\ call.op = "get_minx_maxx" /\ encoded_feature_names.def) =>
        /\ ret.st = "ok"
        /\ Len(ret.v[1]) = EncodedWidth
        /\ Len(ret.v[2]) = EncodedWidth
        /\ \A p \in 1..EncodedWidth :
              IF call.arg \/ p > Len(continuous_feature_names)
              THEN ret.v[1][p] = 0 /\ ret.v[2][p] = 1
              ELSE /\ ret.v[1][p] = permitted_range[continuous_feature_names[p]][1]
                   /\ ret.v[2][p] = permitted_range[continuous_feature_names[p]][2]

\* C3: get_indexes_of_features_to_vary returns 0..width-1 for "all" and, for
\* a list of declared feature names, the ascending indexes of the encoded
\* columns whose name starts with one of the listed names.
C3_IndexesOfFeaturesToVary ==
    (/\ pc = "done"
     /\ call.op = "get_indexes_of_features_to_vary"
     /\ encoded_feature_names.def
     /\ Range(call.arg.list) \subseteq Range(feature_names)) =>
        /\ ret.st = "ok"
        /\ \A i \in DOMAIN ret.v : \A j \in DOMAIN ret.v : i < j => ret.v[i] < ret.v[j]
        /\ Range(ret.v) =
              IF call.arg.all THEN 0..(Len(encoded_feature_names.v) - 1)
              ELSE {p - 1 : p \in {q \in DOMAIN encoded_feature_names.v :
                        \E n \in Range(call.arg.list) :
                            StartsWith(encoded_feature_names.v[q], n)}}

\* C4: get_indexes_of_features_to_vary with a list naming a feature that is
\* not declared fails with a ConfigurationError and leaves the schema as it
\* was (stated for the schemas whose encoded layout exists).
C4_UnknownFeatureRejected ==
    [][(/\ call'.op = "get_indexes_of_features_to_vary"
        /\ encoded_feature_names.def
        /\ ~call'.arg.all
        /\ \E n \in Range(call'.arg.list) : n \notin Range(feature_names)) =>
           (ret'.st = ConfigurationError /\ self' = self)]_vars

\* C5: get_data_params returns continuous indexes 0..|continuous|-1 and one
\* group per categorical feature holding exactly the positions of that
\* feature's own one-hot columns; the groups and the continuous indexes
\* partition the encoded positions.
C5_DataParamsGroups ==
    (pc = "done" /\ call.op = "get_data_params" /\ encoded_feature_names.def) =>
        /\ ret.st = "ok"
        /\ ret.v[3] = PyRange(Len(continuous_feature_names))
        /\ Len(ret.v[4]) = Len(categorical_feature_names)
        /\ \A i \in DOMAIN categorical_feature_names :
              ret.v[4][i] =
                  [j \in 1..Len(categorical_levels[categorical_feature_names[i]]) |->
                      LevelOffset(i) + j - 1]
        /\ \A i, j \in DOMAIN ret.v[4] :
              i # j => Range(ret.v[4][i]) \cap Range(ret.v[4][j]) = {}
        /\ \A i \in DOMAIN ret.v[4] : Range(ret.v[4][i]) \cap Range(ret.v[3]) = {}

\* C6: get_decimal_precisions has one entry per raw feature at the feature's
\* position in feature_names: 0 for a categorical feature, 0 for a
\* continuous feature of type int or without an explicit entry, and d for a
\* continuous feature declared ("float", d).
C6_DecimalPrecisions ==
    (pc = "done" /\ call.op = "get_decimal_precisions") =>
        /\ ret.st = "ok"
        /\ Len(ret.v) = Len(feature_names)
        /\ \A i \in DOMAIN feature_names :
              ret.v[i] =
                  IF /\ feature_names[i] \in Range(continuous_feature_names)
                     /\ feature_names[i] \in DOMAIN type_and_precision
                     /\ type_and_precision[feature_names[i]] # <<"int">>
                  THEN type_and_precision[feature_names[i]][2]
                  ELSE 0

\* every declared level of every categorical feature occurs in the table
CoversLevels(df) ==
    \A c \in Range(categorical_feature_names) :
        {GetColumn(df, c)[r].s : r \in DOMAIN df.rows} = Range(categorical_levels[c])

\* C7: decoding the one-hot encoding of a table that contains every declared
\* level gives back, row by row, every categorical value and leaves every
\* continuous column as it was, for every schema.
C7_DecodeInvertsEncode ==
    (/\ pc = "done"
     /\ call.op = "get_decoded_data"
     /\ ~call.arg.ndarray
     /\ prev.op = "one_hot_encode_data"
     /\ CoversLevels(prev.arg)) =>
        /\ ret.st = "ok"
        /\ \A c \in Range(feature_names) :
              /\ c \in Range(ret.v.cols)
              /\ GetColumn(ret.v, c) = GetColumn(prev.arg, c)

\* every continuous column of df is present and holds numbers of its
\* feature's permitted range
WithinRanges(df) ==
    \A c \in Range(continuous_feature_names) :
        /\ c \in Range(df.cols)
        /\ \A r \in DOMAIN df.rows :
              /\ GetColumn(df, c)[r].k = "num"
              /\ ~CellLess(GetColumn(df, c)[r], Num(permitted_range[c][1], 1))
              /\ ~CellLess(Num(permitted_range[c][2], 1), GetColumn(df, c)[r])

\* w is (v - lo) / (hi - lo)
IsNormalized(w, v, lo, hi) ==
    w.k = "num" /\ w.n * (hi - lo) * v.d = (v.n - lo * v.d) * w.d

\* C8: normalize_data maps a value v of a permitted range (min, max) to
\* (v - min)/(max - min), which is in [0, 1], 0 at min and 1 at max;
\* de_normalize_data of that result gives v back; both leave the columns
\* that are not continuous features as they were.
C8_NormalizeRoundTrip ==
    /\ (pc = "done" /\ call.op = "normalize_data" /\ WithinRanges(call.arg)) =>
          /\ ret.st = "ok"
          /\ ret.v.cols = call.arg.cols
          /\ Len(ret.v.rows) = Len(call.arg.rows)
          /\ \A r \in DOMAIN call.arg.rows : \A i \in DOMAIN call.arg.cols :
                LET v == call.arg.rows[r][i]
                    w == ret.v.rows[r][i]
                    name == call.arg.cols[i]
                IN  IF name \in Range(continuous_feature_names)
                    THEN /\ IsNormalized(w, v, permitted_range[name][1],
                                         permitted_range[name][2])
                         /\ 0 <= w.n /\ w.n <= w.d
                         /\ v = Num(permitted_range[name][1], 1) => w = Num(0, 1)
                         /\ v = Num(permitted_range[name][2], 1) => w = Num(1, 1)
                    ELSE w = v
    /\ (/\ pc = "done"
        /\ call.op = "de_normalize_data"
        /\ prev.op = "normalize_data"
        /\ WithinRanges(prev.arg)) =>
          (ret.st = "ok" /\ ret.v = prev.arg)
    /\ (pc = "done" /\ call.op = "de_normalize_data" /\ ret.st = "ok") =>
          /\ ret.v.cols = call.arg.cols
          /\ \A r \in DOMAIN call.arg.rows : \A i \in DOMAIN call.arg.cols :
                call.arg.cols[i] \notin Range(continuous_feature_names) =>
                    ret.v.rows[r][i] = call.arg.rows[r][i]

\* a value strictly inside its range was normalized to 1/2 next to a
\* categorical column and de-normalized back
C8_Witness ==
    /\ pc = "done"
    /\ call.op = "de_normalize_data"
    /\ prev.op = "normalize_data"
    /\ ret.st = "ok"
    /\ ret.v = prev.arg
    /\ Len(categorical_feature_names) > 0
    /\ \E r \in DOMAIN call.arg.rows : \E i \in DOMAIN call.arg.cols :
          call.arg.rows[r][i] = Num(1, 2)

\* C9: get_test_inputs with encode = true returns, for one row of raw values
\* with declared levels, exactly one row on the encoded layout: 1 in the
\* column of the query's level, 0 in the group's other columns, the
\* normalized value in every continuous column; for every schema, also one
\* without categorical features.
C9_TestInputsEncoded ==
    (pc = "done" /\ call.op = "get_test_inputs" /\ call.arg.encode) =>
        /\ ret.st = "ok"
        /\ ret.v.cols = LayoutNames
        /\ Len(ret.v.rows) = 1
        /\ \A p \in 1..EncodedWidth :
              IF p <= Len(continuous_feature_names)
              THEN IsNormalized(ret.v.rows[1][p],
                       RawValue(call.arg.params, continuous_feature_names[p]),
                       permitted_range[continuous_feature_names[p]][1],
                       permitted_range[continuous_feature_names[p]][2])
              ELSE ret.v.rows[1][p] =
                       IF RawValue(call.arg.params,
                                   categorical_feature_names[OwnerOf(p)]).s
                          = NthLevel(categorical_feature_names[OwnerOf(p)],
                                     p - LevelOffset(OwnerOf(p)))
                       THEN Num(1, 1) ELSE Num(0, 1)

\* C10: no call changes a field fixed at construction; the two cached index
\* fields are written by get_data_params only; every get_data_params call
\* returns what the first one returned and leaves the two fields as the
\* first one left them.
C10_SchemaFrame ==
    [][/\ constructed' = constructed
       /\ caches' # caches => call'.op = "get_data_params"
       /\ call'.op = "get_data_params" =>
             IF first_data_params.def
             THEN /\ ret' = Ok(first_data_params.v)
                  /\ caches' = caches
                  /\ encoded_continuous_feature_indexes' = Attr(first_data_params.v[3])
                  /\ encoded_categorical_feature_indexes' = Attr(first_data_params.v[4])
             ELSE ret'.st # "ok" => caches' = caches]_vars

\* get_data_params has returned with both index fields set, on a schema
\* with continuous and categorical features
C10_Witness ==
    /\ pc = "done"
    /\ call.op = "get_data_params"
    /\ first_data_params.def
    /\ ret = Ok(first_data_params.v)
    /\ encoded_continuous_feature_indexes = Attr(ret.v[3])
    /\ encoded_categorical_feature_indexes = Attr(ret.v[4])
    /\ Len(ret.v[3]) > 0
    /\ Len(ret.v[4]) > 0

====
